---- MODULE Spec2Model ----
(***************************************************************************)
(* Model of src/test_harness/agent.py: generate_testbench and the helpers  *)
(* it calls (finding_bugs, extract_header, creating_tb,                    *)
(* check_verilog_syntax, fix_verilog_syntax).                              *)
(*                                                                         *)
(* A text (Python str) is a sequence of code points; the captured stderr   *)
(* of the compiler (Python bytes) is a sequence of bytes.  The oracle      *)
(* (model.generate_content) and the compiler (subprocess.run of iverilog)  *)
(* are external: every call picks one of their possible outcomes.          *)
(***************************************************************************)
EXTENDS Integers, Sequences, FiniteSets, TLC

\* ------------------------------------------------------------------ bounds
\* longest raw oracle response to extract_header / creating_tb / fix_verilog_syntax
MaxRespLen == 4
\* longest raw oracle response to finding_bugs
MaxBugsLen == 1
\* longest captured stderr of one compiler invocation, in bytes
MaxStderrLen == 2
\* number of fix_verilog_syntax calls explored (the code has no cap)
MaxRepairs == 2

\* ------------------------------------------------------------ text helpers
LF == 10
CR == 13

\* the line boundaries of str.splitlines()
LineBreaks == {10, 11, 12, 13, 28, 29, 30, 133, 8232, 8233}

\* all sequences over S of length <= n
SeqsUpTo(S, n) == UNION {[1..k -> S] : k \in 0..n}

\* str.splitlines(): cut at every line boundary (CR LF counts as one), the
\* boundaries are not kept, and a text that ends with a boundary has no
\* trailing empty line
RECURSIVE SplitFrom(_, _, _, _)
SplitFrom(s, i, cur, acc) ==
    IF i > Len(s)
    THEN IF cur = <<>> THEN acc ELSE Append(acc, cur)
    ELSE IF s[i] \in LineBreaks
         THEN IF s[i] = CR /\ i < Len(s) /\ s[i + 1] = LF
              THEN SplitFrom(s, i + 2, <<>>, Append(acc, cur))
              ELSE SplitFrom(s, i + 1, <<>>, Append(acc, cur))
         ELSE SplitFrom(s, i + 1, Append(cur, s[i]), acc)

SplitLines(s) == SplitFrom(s, 1, <<>>, <<>>)

\* '\n'.join(lines)
RECURSIVE JoinLines(_)
JoinLines(lines) ==
    IF lines = <<>> THEN <<>>
    ELSE IF Len(lines) = 1 THEN lines[1]
    ELSE lines[1] \o <<LF>> \o JoinLines(Tail(lines))

\* lines[1:]: only the first line dropped
DropFirstOnly(lines) == SubSeq(lines, 2, Len(lines))

\* lines[1:-1]
DropFirstLast(lines) == SubSeq(lines, 2, Len(lines) - 1)

\* '\n'.join(text.splitlines()[1:-1])
StripEnvelope(text) == JoinLines(DropFirstLast(SplitLines(text)))

\* bytes.decode(): strict UTF-8.  One-byte (0xxxxxxx) and two-byte (110xxxxx
\* 10xxxxxx, lead byte 0xC2..0xDF) forms; any other byte below 0xE0 is
\* invalid and raises UnicodeDecodeError (ok = FALSE).  StderrBytes stays
\* below 0xE0, so the longer forms are not needed.
RECURSIVE DecodeFrom(_, _, _)
DecodeFrom(b, i, acc) ==
    IF i > Len(b) THEN [ok |-> TRUE, text |-> acc]
    ELSE IF b[i] < 128 THEN DecodeFrom(b, i + 1, Append(acc, b[i]))
    ELSE IF b[i] \in 194..223 /\ i < Len(b) /\ b[i + 1] \in 128..191
         THEN DecodeFrom(b, i + 2, Append(acc, (b[i] - 192) * 64 + (b[i + 1] - 128)))
         ELSE [ok |-> FALSE, text |-> <<>>]

Decode(b) == DecodeFrom(b, 1, <<>>)

\* --------------------------------------------------------- external world
\* code points the oracle writes: a letter and the newline
OracleChars == {97, LF}
\* bytes the compiler writes to stderr: "a", and the two bytes of U+00E9
StderrBytes == {97, 195, 169}

\* a response object of model.generate_content: .candidates is a list, each
\* candidate has .text (a response may carry no candidate at all)
Response(t) == [candidates |-> <<[text |-> t]>>]
NoCandidates == [candidates |-> <<>>]
Responses(n) == {Response(t) : t \in SeqsUpTo(OracleChars, n)} \cup {NoCandidates}

\* what subprocess.run(..., check=True, stderr=PIPE) can do: the process runs
\* and exits with a return code and a captured stderr, or it cannot be
\* launched at all (FileNotFoundError, PermissionError: an OSError)
CompilerOutcomes ==
    [launched : {TRUE}, returncode : {0, 1}, stderr : SeqsUpTo(StderrBytes, MaxStderrLen)]
    \cup {[launched |-> FALSE, returncode |-> 0, stderr |-> <<>>]}

\* the Run input: file name -> content.  Both entries the code reads
\* ('specification.md' as spec, 'mutant_0.v' as mutant) are present.
SpecTexts == {<<115>>}
MutantTexts == {<<109>>, <<109, LF, 109>>}
Inputs == {[spec |-> s, mutant |-> m] : s \in SpecTexts, m \in MutantTexts}

\* ------------------------------------------------------------------ state
VARIABLES
    pc,                   \* position of generate_testbench
    file_name_to_content, \* its argument
    functional_desc, potential_bugs, module_header, to_return, isGood, error,
    request,              \* the prompt the oracle is working on, if any
    tmpdirs,              \* the temporary directories that exist
    returned,             \* the value generate_testbench returned
    fault,                \* the exception that left generate_testbench
    trace,                \* oracle requests and compiler runs issued, in order
    synthPrompt,          \* the prompt creating_tb sent
    emptyHeaderText,      \* the header request was answered with the empty text
    lastCheck,            \* the most recent check_verilog_syntax call
    response,             \* the response object the oracle function that returned
                          \* last had received (<<>> once the next call is made)
    probe,                \* a pair of files and what the compiler does with it
    verdicts              \* the results of the validations of that pair, in order

vars == <<pc, file_name_to_content, functional_desc, potential_bugs, module_header,
          to_return, isGood, error, request, tmpdirs, returned, fault, trace,
          synthPrompt, emptyHeaderText, lastCheck, response, probe, verdicts>>

NoPrompt == [fn |-> "none"]
NoProcess == [launched |-> FALSE, returncode |-> 0, stderr |-> <<>>]
NoCheck == [verilog_code |-> <<>>, mutant0 |-> <<>>, top_module |-> "",
            outcome |-> "none", diag |-> <<>>, proc |-> NoProcess]
NoProbe == [verilog_code |-> <<>>, mutant0 |-> <<>>, known |-> FALSE, proc |-> NoProcess]

Init ==
    /\ pc = "Init"
    /\ file_name_to_content \in Inputs
    /\ functional_desc = <<>>
    /\ potential_bugs = NoCandidates
    /\ module_header = <<>>
    /\ to_return = <<>>
    /\ isGood = FALSE
    /\ error = <<>>
    /\ request = NoPrompt
    /\ tmpdirs = {}
    /\ returned = <<>>
    /\ fault = "none"
    /\ trace = <<>>
    /\ synthPrompt = NoPrompt
    /\ emptyHeaderText = FALSE
    /\ lastCheck = NoCheck
    /\ response = <<>>
    /\ probe = NoProbe
    /\ verdicts = <<>>

\* an exception leaves generate_testbench: nothing is returned
Raise(exc) ==
    /\ pc' = "Fault"
    /\ fault' = exc

\* how often a request of this kind was issued so far
NumCalls(name) == Cardinality({i \in DOMAIN trace : trace[i] = name})

\* ---------------------------------------------------------------- prompts
\* a prompt is its template (named by the function that builds it) and the
\* texts interpolated into its slots
BugsPrompt(desc) == [fn |-> "finding_bugs", functional_desc |-> desc]
HeaderPrompt(mutant0) == [fn |-> "extract_header", mutant0 |-> mutant0]
CreatePrompt(desc, bugs, header) ==
    [fn |-> "creating_tb", functional_desc |-> desc, potential_bugs |-> bugs,
     module_header |-> header]
\* the repair prompt without the module header line
FixPromptNoHeader(verilog_code, error_message, header) ==
    [fn |-> "fix_verilog_syntax", verilog_code |-> verilog_code,
     error_message |-> error_message]

FixPrompt(verilog_code, error_message, header) ==
    [fn |-> "fix_verilog_syntax", verilog_code |-> verilog_code,
     error_message |-> error_message, module_header |-> header]

\* model.generate_content(prompt) is called: the request is with the oracle
GenerateContent(prompt) ==
    /\ request' = prompt
    /\ response' = <<>>
    /\ trace' = Append(trace, prompt.fn)

\* the exception of model.generate_content swallowed (try/except around the
\* call): the function goes on with what it had
OracleRaisesSwallowed ==
    /\ request' = NoPrompt
    /\ UNCHANGED response
    /\ fault' = "OracleError"
    /\ pc' = IF pc = "FindingBugs" THEN "BugsHypothesized"
             ELSE IF pc = "ExtractingHeader" THEN "HeaderExtracted"
             ELSE IF pc = "Synthesizing" THEN "Synthesized"
             ELSE "Repaired"

\* model.generate_content raises instead of returning
OracleRaises ==
    /\ request' = NoPrompt
    /\ UNCHANGED response
    /\ Raise("OracleError")

\* ---------------------------------------------------------------- actions
\* lines 121-122 and 27-34: functional_desc is read, finding_bugs builds its
\* prompt and calls the oracle
FindingBugsCall ==
    /\ pc = "Init"
    /\ functional_desc' = file_name_to_content.spec
    /\ GenerateContent(BugsPrompt(functional_desc'))
    /\ pc' = "FindingBugs"
    /\ UNCHANGED <<probe, verdicts, file_name_to_content, potential_bugs, module_header, to_return,
                   isGood, error, tmpdirs, returned, fault, synthPrompt,
                   emptyHeaderText, lastCheck>>

\* lines 34-35 and 122: finding_bugs has received the response r and returns
\* the response object itself (no .text is read here)
FindingBugsReceives(r) ==
    /\ response' = <<r>>
    /\ potential_bugs' = r
    /\ pc' = "BugsHypothesized"
    /\ UNCHANGED fault

\* lines 34-35 and 122
FindingBugsReturn ==
    /\ pc = "FindingBugs"
    /\ \/ \E r \in Responses(MaxBugsLen) :
            /\ request' = NoPrompt
            /\ FindingBugsReceives(r)
       \/ /\ OracleRaises
          /\ UNCHANGED potential_bugs
    /\ UNCHANGED <<probe, verdicts, file_name_to_content, functional_desc, module_header, to_return,
                   isGood, error, tmpdirs, returned, trace, synthPrompt,
                   emptyHeaderText, lastCheck>>

\* lines 124 and 16-21
ExtractHeaderCall ==
    /\ pc = "BugsHypothesized"
    /\ GenerateContent(HeaderPrompt(file_name_to_content.mutant))
    /\ pc' = "ExtractingHeader"
    /\ UNCHANGED <<probe, verdicts, file_name_to_content, functional_desc, potential_bugs, module_header,
                   to_return, isGood, error, tmpdirs, returned, fault, synthPrompt,
                   emptyHeaderText, lastCheck>>

\* lines 21-24 and 124: extract_header has received the response r
ExtractHeaderReceives(r) ==
    /\ response' = <<r>>
    /\ IF r.candidates = <<>>
       THEN /\ Raise("IndexError")
            /\ UNCHANGED <<module_header, emptyHeaderText>>
       ELSE /\ module_header' = StripEnvelope(r.candidates[1].text)
            /\ emptyHeaderText' = (r.candidates[1].text = <<>>)
            /\ pc' = "HeaderExtracted"
            /\ UNCHANGED fault

\* lines 21-24 and 124
ExtractHeaderReturn ==
    /\ pc = "ExtractingHeader"
    /\ \/ \E r \in Responses(MaxRespLen) :
            /\ request' = NoPrompt
            /\ ExtractHeaderReceives(r)
       \/ /\ OracleRaises
          /\ UNCHANGED <<module_header, emptyHeaderText>>
    /\ UNCHANGED <<probe, verdicts, file_name_to_content, functional_desc, potential_bugs, to_return,
                   isGood, error, tmpdirs, returned, trace, synthPrompt, lastCheck>>

\* creating_tb called right after finding_bugs, before the header is extracted
CreatingTbCallEarly ==
    /\ pc = "BugsHypothesized"
    /\ potential_bugs.candidates # <<>>
    /\ synthPrompt' = CreatePrompt(functional_desc, potential_bugs.candidates[1].text,
                                   module_header)
    /\ GenerateContent(synthPrompt')
    /\ pc' = "Synthesizing"
    /\ UNCHANGED <<probe, verdicts, file_name_to_content, functional_desc, potential_bugs, module_header,
                   to_return, isGood, error, tmpdirs, returned, fault, emptyHeaderText,
                   lastCheck>>

\* lines 125 and 38-58: the prompt reads potential_bugs.candidates[0].text
\* before the request is made
CreatingTbCall ==
    /\ pc = "HeaderExtracted"
    /\ IF potential_bugs.candidates = <<>>
       THEN /\ Raise("IndexError")
            /\ UNCHANGED <<request, response, trace, synthPrompt>>
       ELSE /\ synthPrompt' = CreatePrompt(functional_desc,
                                           potential_bugs.candidates[1].text,
                                           module_header)
            /\ GenerateContent(synthPrompt')
            /\ pc' = "Synthesizing"
            /\ UNCHANGED fault
    /\ UNCHANGED <<probe, verdicts, file_name_to_content, functional_desc, potential_bugs, module_header,
                   to_return, isGood, error, tmpdirs, returned, emptyHeaderText,
                   lastCheck>>

\* lines 58-60 and 125-127: creating_tb has received the response r
CreatingTbReceives(r) ==
    /\ response' = <<r>>
    /\ IF r.candidates = <<>>
       THEN /\ Raise("IndexError")
            /\ UNCHANGED <<to_return, isGood>>
       ELSE /\ to_return' = StripEnvelope(r.candidates[1].text)
            /\ isGood' = FALSE
            /\ pc' = "Synthesized"
            /\ UNCHANGED fault

\* lines 58-60 and 125-127
CreatingTbReturn ==
    /\ pc = "Synthesizing"
    /\ \/ \E r \in Responses(MaxRespLen) :
            /\ request' = NoPrompt
            /\ CreatingTbReceives(r)
       \/ /\ OracleRaises
          /\ UNCHANGED <<to_return, isGood>>
    /\ UNCHANGED <<probe, verdicts, file_name_to_content, functional_desc, potential_bugs, module_header,
                   error, tmpdirs, returned, trace, synthPrompt, emptyHeaderText,
                   lastCheck>>

\* generate_testbench is at the loop test of line 128
LoopHead == {"Synthesized", "Repaired", "Passed"}

\* the loop test inverted (while isGood)
LoopContinuesInverted == isGood

\* the loop with an iteration cap: it gives up after two validations
LoopContinuesCapped == ~isGood /\ NumCalls("check_verilog_syntax") < 2

\* a do-while that validates once more after the first Pass
LoopContinuesConfirm == ~isGood \/ NumCalls("check_verilog_syntax") < 2

\* line 128: while not isGood
LoopContinues == ~isGood

\* the extracted header compiled in place of the candidate module
CheckArgsHeader == [verilog_code |-> to_return,
                    mutant0 |-> module_header,
                    top_module |-> "tb"]

\* line 129: the arguments of check_verilog_syntax
CheckArgs == [verilog_code |-> to_return,
              mutant0 |-> file_name_to_content.mutant,
              top_module |-> "tb"]

\* one fixed directory that is never emptied, each file written only when it
\* is not there yet: from the second call on the files of the first call
\* are compiled
NewTmpdirStale(args) ==
    IF lastCheck.outcome = "none"
    THEN [id |-> 1, temp_tb |-> args.verilog_code, mutant0 |-> args.mutant0]
    ELSE [id |-> NumCalls("check_verilog_syntax") + 1,
          temp_tb |-> lastCheck.verilog_code, mutant0 |-> lastCheck.mutant0]

\* lines 70-77: the temporary directory with its two source files
NewTmpdir(args) == [id |-> NumCalls("check_verilog_syntax") + 1,
                    temp_tb |-> args.verilog_code,
                    mutant0 |-> args.mutant0]

\* lines 69-82: check_verilog_syntax is entered with these arguments: the
\* directory is made, the two files are written and the compiler is started
EnterCheck(args) ==
    /\ tmpdirs' = tmpdirs \cup {NewTmpdir(args)}
    /\ lastCheck' = [verilog_code |-> args.verilog_code,
                     mutant0 |-> args.mutant0,
                     top_module |-> args.top_module,
                     outcome |-> "running", diag |-> <<>>, proc |-> NoProcess]
    /\ trace' = Append(trace, "check_verilog_syntax")
    /\ pc' = "Validating"

\* lines 128-129 and 70-77: the loop goes on, check_verilog_syntax is entered
\* and the compiler is started
CheckEnter ==
    /\ pc \in LoopHead
    /\ LoopContinues
    /\ EnterCheck(CheckArgs)
    /\ response' = <<>>
    /\ UNCHANGED <<probe, verdicts, file_name_to_content, functional_desc, potential_bugs, module_header,
                   to_return, isGood, error, request, returned, fault, synthPrompt,
                   emptyHeaderText>>

\* every exception of subprocess.run caught (except Exception), so that a
\* compiler that cannot be launched is reported as a failed compilation
CheckResultCatchAll(out) ==
    IF ~out.launched
    THEN [exc |-> "none", isGood |-> FALSE, error |-> <<>>]
    ELSE IF out.returncode = 0
    THEN [exc |-> "none", isGood |-> TRUE, error |-> <<>>]
    ELSE IF Decode(out.stderr).ok
    THEN [exc |-> "none", isGood |-> FALSE, error |-> Decode(out.stderr).text]
    ELSE [exc |-> "UnicodeDecodeError", isGood |-> FALSE, error |-> <<>>]

\* lines 79-92: what check_verilog_syntax makes of the compiler's outcome.
\* exc is the exception that leaves it ("none": it returns (isGood, error))
CheckResult(out) ==
    IF ~out.launched
    THEN [exc |-> "OSError", isGood |-> FALSE, error |-> <<>>]
    ELSE IF out.returncode = 0
    THEN [exc |-> "none", isGood |-> TRUE, error |-> <<>>]
    ELSE IF Decode(out.stderr).ok
    THEN [exc |-> "none", isGood |-> FALSE, error |-> Decode(out.stderr).text]
    ELSE [exc |-> "UnicodeDecodeError", isGood |-> FALSE, error |-> <<>>]

\* the directory removed by hand on the two return paths only (tempfile.mkdtemp
\* and shutil.rmtree before each return), so that an exception leaves it behind
ReleaseOnReturnOnly(dirs, res) == IF res.exc = "none" THEN {} ELSE dirs

\* line 70: leaving the with block removes the directory, by return or by
\* exception
ReleaseTmpdir(dirs, res) == {}

\* lines 79-92 and 129-130: the compiler has run with this outcome;
\* check_verilog_syntax returns (the caller assigns isGood, error) or raises
ExitCheck(out) ==
    LET res == CheckResult(out) IN
    /\ tmpdirs' = ReleaseTmpdir(tmpdirs, res)
    /\ IF res.exc # "none"
       THEN /\ Raise(res.exc)
            /\ lastCheck' = [lastCheck EXCEPT !.outcome = "raise", !.proc = out]
            /\ UNCHANGED <<isGood, error>>
       ELSE /\ isGood' = res.isGood
            /\ error' = res.error
            /\ lastCheck' = [lastCheck EXCEPT
                               !.outcome = IF res.isGood THEN "pass" ELSE "fail",
                               !.diag = res.error,
                               !.proc = out]
            /\ pc' = IF res.isGood THEN "Passed" ELSE "Repairing"
            /\ UNCHANGED fault

\* lines 79-92 and 129-130: the compiler has run, check_verilog_syntax returns
\* or raises, and line 130 picks the repair or the loop test
CheckExit ==
    /\ pc = "Validating"
    /\ \E out \in CompilerOutcomes : ExitCheck(out)
    /\ UNCHANGED <<response, probe, verdicts, file_name_to_content, functional_desc, potential_bugs, module_header,
                   to_return, request, returned, trace, synthPrompt, emptyHeaderText>>

\* the header taken as on the commented-out line 123: the first line of the
\* candidate module instead of the extracted module_header
FixArgsRawHeader ==
    [verilog_code |-> to_return, error_message |-> error,
     module_header |-> IF SplitLines(file_name_to_content.mutant) = <<>> THEN <<>>
                       ELSE SplitLines(file_name_to_content.mutant)[1]]

\* the code and the error message passed in each other's place
FixArgsSwapped == [verilog_code |-> error, error_message |-> to_return,
                   module_header |-> module_header]

\* line 131: the arguments of fix_verilog_syntax
FixArgs == [verilog_code |-> to_return, error_message |-> error,
            module_header |-> module_header]

\* lines 131 and 95-108
FixVerilogSyntaxCall ==
    /\ pc = "Repairing"
    /\ NumCalls("fix_verilog_syntax") < MaxRepairs
    /\ GenerateContent(FixPrompt(FixArgs.verilog_code, FixArgs.error_message,
                                 FixArgs.module_header))
    /\ pc' = "Fixing"
    /\ UNCHANGED <<probe, verdicts, file_name_to_content, functional_desc, potential_bugs, module_header,
                   to_return, isGood, error, tmpdirs, returned, fault, synthPrompt,
                   emptyHeaderText, lastCheck>>

\* the response applied as a patch: its text is appended to the artifact the
\* repair was asked for
FixVerilogSyntaxPatches(r) ==
    /\ response' = <<r>>
    /\ IF r.candidates = <<>>
       THEN /\ Raise("IndexError")
            /\ UNCHANGED to_return
       ELSE /\ to_return' = to_return \o StripEnvelope(r.candidates[1].text)
            /\ pc' = "Repaired"
            /\ UNCHANGED fault

\* lines 108-112 and 131: fix_verilog_syntax has received the response r; the
\* caller assigns what it returns to to_return
FixVerilogSyntaxReceives(r) ==
    /\ response' = <<r>>
    /\ IF r.candidates = <<>>
       THEN /\ Raise("IndexError")
            /\ UNCHANGED to_return
       ELSE /\ to_return' = StripEnvelope(r.candidates[1].text)
            /\ pc' = "Repaired"
            /\ UNCHANGED fault

\* lines 108-112 and 131
FixVerilogSyntaxReturn ==
    /\ pc = "Fixing"
    /\ \/ \E r \in Responses(MaxRespLen) :
            /\ request' = NoPrompt
            /\ FixVerilogSyntaxReceives(r)
       \/ /\ OracleRaises
          /\ UNCHANGED to_return
    /\ UNCHANGED <<probe, verdicts, file_name_to_content, functional_desc, potential_bugs, module_header,
                   isGood, error, tmpdirs, returned, trace, synthPrompt,
                   emptyHeaderText, lastCheck>>

\* lines 128 and 133: the loop test fails and to_return is returned
Return ==
    /\ pc \in LoopHead
    /\ ~LoopContinues
    /\ returned' = to_return
    /\ pc' = "Done"
    /\ UNCHANGED <<response, probe, verdicts, file_name_to_content, functional_desc, potential_bugs, module_header,
                   to_return, isGood, error, request, tmpdirs, fault, trace,
                   synthPrompt, emptyHeaderText, lastCheck>>

Next ==
    \/ FindingBugsCall
    \/ FindingBugsReturn
    \/ ExtractHeaderCall
    \/ ExtractHeaderReturn
    \/ CreatingTbCall
    \/ CreatingTbReturn
    \/ CheckEnter
    \/ CheckExit
    \/ FixVerilogSyntaxCall
    \/ FixVerilogSyntaxReturn
    \/ Return

Spec == Init /\ [][Next]_vars

\* ------------------------------------------------------------------ claims
LastRequest == IF trace = <<>> THEN "none" ELSE trace[Len(trace)]
InLoop == {"Synthesized", "Validating", "Passed", "Repairing", "Fixing", "Repaired", "Done"}
BugsText == potential_bugs.candidates[1].text

\* C1: generate_testbench returns only after a validation that passed: when it
\* has returned, the most recent check_verilog_syntax call was made on exactly
\* the returned text, with the Run's candidate module and top module tb, it
\* returned Pass, and nothing was requested from the oracle or the compiler
\* after it.
C1_ReturnsOnlyValidated ==
    pc = "Done" =>
        /\ lastCheck.outcome = "pass"
        /\ lastCheck.verilog_code = returned
        /\ lastCheck.mutant0 = file_name_to_content.mutant
        /\ lastCheck.top_module = "tb"
        /\ LastRequest = "check_verilog_syntax"

\* a Run that returned a non-empty artifact after two repairs
C1_Witness ==
    /\ pc = "Done"
    /\ returned # <<>>
    /\ NumCalls("fix_verilog_syntax") = 2

\* C2: extract_header and finding_bugs are each requested at most once in a
\* Run, exactly once as soon as the loop is entered, whatever the number of
\* repairs; module_header and the bug text keep the values the synthesis
\* prompt was built from; and every fix_verilog_syntax prompt carries the same
\* module_header text as the creating_tb prompt.
C2_ComputedOnce ==
    /\ NumCalls("extract_header") <= 1
    /\ NumCalls("finding_bugs") <= 1
    /\ pc \in InLoop =>
          /\ NumCalls("extract_header") = 1
          /\ NumCalls("finding_bugs") = 1
          /\ module_header = synthPrompt.module_header
          /\ BugsText = synthPrompt.potential_bugs
    /\ request.fn = "fix_verilog_syntax" =>
          request.module_header = synthPrompt.module_header

\* the second repair request of a Run with a non-empty module header
C2_Witness ==
    /\ request.fn = "fix_verilog_syntax"
    /\ NumCalls("fix_verilog_syntax") = 2
    /\ module_header # <<>>
    /\ request.module_header = module_header

\* the order of requests the code issues: finding_bugs, extract_header,
\* creating_tb, then validations and repairs alternating
CodeOrderAt(i) ==
    IF i = 1 THEN "finding_bugs"
    ELSE IF i = 2 THEN "extract_header"
    ELSE IF i = 3 THEN "creating_tb"
    ELSE IF i % 2 = 0 THEN "check_verilog_syntax"
    ELSE "fix_verilog_syntax"

\* the order the claim states: extract_header before finding_bugs
ClaimedOrderAt(i) ==
    IF i = 1 THEN "extract_header"
    ELSE IF i = 2 THEN "finding_bugs"
    ELSE CodeOrderAt(i)

\* C3 (as amended): the requests of a Run are issued in the order
\* finding_bugs, extract_header, creating_tb, first validation, and after
\* that repairs and validations alternate (the only cycle).
C3_CodeOrder == \A i \in DOMAIN trace : trace[i] = CodeOrderAt(i)

\* C3 (as claimed): the header request is issued before the bug-hypothesis
\* request, then creating_tb, the first validation, and the repair cycle.
C3_ClaimedOrder == \A i \in DOMAIN trace : trace[i] = ClaimedOrderAt(i)

\* a Run that went twice round the repair cycle
C3_Witness ==
    /\ Len(trace) = 8
    /\ pc = "Validating"

\* C4: a repair is requested only after a validation that returned Fail, with
\* the artifact that validation was run on and the diagnostic it returned
\* (the most recent one); at Repairing nothing but the repair can happen; a
\* repair request is always directly preceded by a validation and, once the
\* repaired artifact is there, nothing but its validation can happen; no
\* repair follows a Pass.
C4_RepairAfterFail ==
    /\ pc = "Repairing" =>
          /\ lastCheck.outcome = "fail"
          /\ to_return = lastCheck.verilog_code
          /\ error = lastCheck.diag
          /\ ~ENABLED CheckEnter
          /\ ~ENABLED Return
    /\ request.fn = "fix_verilog_syntax" =>
          /\ lastCheck.outcome = "fail"
          /\ request.verilog_code = lastCheck.verilog_code
          /\ request.error_message = lastCheck.diag
    /\ \A i \in DOMAIN trace :
          trace[i] = "fix_verilog_syntax" =>
             /\ i > 1 /\ trace[i - 1] = "check_verilog_syntax"
             /\ i < Len(trace) => trace[i + 1] = "check_verilog_syntax"
    /\ pc = "Repaired" =>
          /\ LastRequest = "fix_verilog_syntax"
          /\ ENABLED CheckEnter
          /\ ~ENABLED Return
          /\ ~ENABLED FixVerilogSyntaxCall
    /\ lastCheck.outcome = "pass" => pc \in {"Passed", "Done"}
    /\ lastCheck.outcome = "fail" =>
          pc \in {"Repairing", "Fixing", "Repaired", "Fault"}

\* the second repair request of a Run, whose diagnostic is not empty and whose
\* failing artifact is not the empty text
C4_Witness ==
    /\ request.fn = "fix_verilog_syntax"
    /\ NumCalls("fix_verilog_syntax") = 2
    /\ request.error_message # <<>>
    /\ request.verilog_code # <<>>
    /\ request.error_message # request.verilog_code

\* C5: the Run is Done only after a Pass; after a Pass nothing more is
\* requested and the only step is the return; while no call has raised and
\* the Run is not Done there is always a next step (up to the MaxRepairs
\* repairs explored): no state gives up.
C5_NoCapNoGiveUp ==
    /\ pc = "Done" => lastCheck.outcome = "pass"
    /\ lastCheck.outcome = "pass" =>
          /\ LastRequest = "check_verilog_syntax"
          /\ pc = "Passed" => (ENABLED Return /\ ~ENABLED CheckEnter)
    /\ (fault = "none" /\ pc # "Done" /\ NumCalls("fix_verilog_syntax") < MaxRepairs)
          => ENABLED Next
    /\ pc = "Fault" <=> fault # "none"
    /\ (pc \in LoopHead /\ pc # "Passed") => (ENABLED CheckEnter /\ ~ENABLED Return)

\* MaxRepairs + 1 validations in a row have failed and the Run is still in
\* the loop, about to repair again
C5_Witness ==
    /\ pc = "Repairing"
    /\ NumCalls("fix_verilog_syntax") = MaxRepairs
    /\ NumCalls("check_verilog_syntax") = MaxRepairs + 1
    /\ fault = "none"

\* C6 (as claimed): when the oracle answers the header request with the empty
\* text, the Run ends in a fault and creating_tb is never called.
C6_EmptyHeaderFaults ==
    emptyHeaderText => (pc = "Fault" /\ NumCalls("creating_tb") = 0)

\* the compiler outcome of the most recent validation is known
CheckFinished == lastCheck.outcome \in {"pass", "fail", "raise"}

\* C7: when the compiler cannot be launched, check_verilog_syntax returns
\* nothing: it raises OSError, which leaves generate_testbench as the Run's
\* fault; no repair is requested for it and nothing is returned.  OSError is
\* the fault of a launch failure only, and a Fail result always comes from a
\* compiler that ran.
C7_LaunchFaultPropagates ==
    /\ (CheckFinished /\ ~lastCheck.proc.launched) =>
          /\ lastCheck.outcome = "raise"
          /\ pc = "Fault"
          /\ fault = "OSError"
          /\ LastRequest = "check_verilog_syntax"
          /\ request = NoPrompt
    /\ fault = "OSError" => (CheckFinished /\ ~lastCheck.proc.launched)
    /\ lastCheck.outcome \in {"pass", "fail"} => lastCheck.proc.launched

\* the compiler could not be launched for the validation of a repaired,
\* non-empty artifact
C7_Witness ==
    /\ pc = "Fault"
    /\ fault = "OSError"
    /\ ~lastCheck.proc.launched
    /\ lastCheck.verilog_code # <<>>
    /\ NumCalls("fix_verilog_syntax") = 1

\* C8: a temporary directory exists only while check_verilog_syntax is running
\* (then exactly one, holding the artifact and the candidate module of that
\* call); it is gone when the call has returned Pass, returned Fail or raised.
C8_TmpdirReleased ==
    /\ Cardinality(tmpdirs) <= 1
    /\ pc # "Validating" => tmpdirs = {}
    /\ pc = "Validating" =>
          /\ Cardinality(tmpdirs) = 1
          /\ \A d \in tmpdirs :
                /\ d.temp_tb = lastCheck.verilog_code
                /\ d.mutant0 = lastCheck.mutant0

\* the second validation of a Run could not launch the compiler (the first
\* one compiled and failed) and no directory is left
C8_Witness ==
    /\ fault = "OSError"
    /\ NumCalls("check_verilog_syntax") = 2
    /\ lastCheck.outcome = "raise"
    /\ tmpdirs = {}

\* str.encode(): UTF-8, for code points below U+0800
RECURSIVE EncodeUtf8(_)
EncodeUtf8(text) ==
    IF text = <<>> THEN <<>>
    ELSE (IF Head(text) < 128 THEN <<Head(text)>>
          ELSE <<192 + (Head(text) \div 64), 128 + (Head(text) % 64)>>)
         \o EncodeUtf8(Tail(text))

\* C9 (as claimed): a compiler that ran and exited with status 0 gives Pass
\* with the empty diagnostic; one that exited with another status gives Fail,
\* and the diagnostic is the text captured on its stderr; the repair request
\* carries that diagnostic.
C9_PassOnExitZeroFailOtherwise ==
    /\ (CheckFinished /\ lastCheck.proc.launched) =>
          IF lastCheck.proc.returncode = 0
          THEN lastCheck.outcome = "pass" /\ lastCheck.diag = <<>>
          ELSE /\ lastCheck.outcome = "fail"
               /\ EncodeUtf8(lastCheck.diag) = lastCheck.proc.stderr
    /\ request.fn = "fix_verilog_syntax" => request.error_message = lastCheck.diag

\* the slots of a prompt
Slots(prompt) == DOMAIN prompt \ {"fn"}

\* C10 (as claimed): every repair prompt carries the module header and the
\* bug hypotheses of the initial synthesis prompt.
C10_RepairReusesHeaderAndBugs ==
    request.fn = "fix_verilog_syntax" =>
        /\ "module_header" \in Slots(request)
        /\ request.module_header = synthPrompt.module_header
        /\ "potential_bugs" \in Slots(request)
        /\ request.potential_bugs = synthPrompt.potential_bugs

\* C10 (as amended): every repair prompt carries the module header of the
\* initial synthesis prompt, unchanged; the bug hypotheses are not part of
\* a repair prompt (its slots are the code, the error message and the module
\* header), and they are never regenerated: the Run still holds the text the
\* synthesis prompt was built from.
C10_RepairReusesHeader ==
    request.fn = "fix_verilog_syntax" =>
        /\ Slots(request) = {"verilog_code", "error_message", "module_header"}
        /\ request.module_header = synthPrompt.module_header
        /\ BugsText = synthPrompt.potential_bugs
        /\ NumCalls("finding_bugs") = 1

\* a repair request in a Run whose header and bug hypotheses are both
\* non-empty texts
C10_Witness ==
    /\ request.fn = "fix_verilog_syntax"
    /\ request.module_header # <<>>
    /\ synthPrompt.potential_bugs # <<>>
    /\ synthPrompt.potential_bugs # request.module_header

\* the functions that call the oracle
OracleFns == {"finding_bugs", "extract_header", "creating_tb", "fix_verilog_syntax"}

\* C11: when an oracle call raises, the exception leaves generate_testbench:
\* the Run is at Fault and can take no further step, the failed request is
\* the last request of the Run (no retry, no later oracle or compiler call),
\* nothing is outstanding, no temporary directory is left and nothing is
\* returned.  The one-off requests were issued once, and a repair was never
\* requested more often than a validation was run.
C11_OracleFaultPropagates ==
    fault = "OracleError" =>
        /\ pc = "Fault"
        /\ ~ENABLED Next
        /\ LastRequest \in OracleFns
        /\ request = NoPrompt
        /\ tmpdirs = {}
        /\ returned = <<>>
        /\ \A f \in OracleFns \ {"fix_verilog_syntax"} : NumCalls(f) <= 1
        /\ NumCalls("fix_verilog_syntax") <= NumCalls("check_verilog_syntax")
        /\ LastRequest = "fix_verilog_syntax" =>
              NumCalls("fix_verilog_syntax") = NumCalls("check_verilog_syntax")

\* the oracle raised on the second repair request
C11_Witness ==
    /\ fault = "OracleError"
    /\ LastRequest = "fix_verilog_syntax"
    /\ NumCalls("fix_verilog_syntax") = 2

\* ----------------------------------------------- the Validator on its own
\* check_verilog_syntax called again and again with arbitrary artifacts, by a
\* caller that keeps nothing between the calls, against a compiler that is
\* deterministic on one pair of files (probe): what it does the first time it
\* is run on a directory holding that pair (probe.proc) it does every time.

\* number of check_verilog_syntax calls explored
MaxValidations == 3

\* the texts creating_tb and fix_verilog_syntax can hand to the Validator
ArtifactTexts == {StripEnvelope(t) : t \in SeqsUpTo(OracleChars, MaxRespLen)}

\* the Validator only copies the candidate module into the directory: one
\* candidate module is enough here
ValidatorInputs == {i \in Inputs : Len(i.mutant) = 1}

InitValidator ==
    /\ pc = "Idle"
    /\ file_name_to_content \in ValidatorInputs
    /\ functional_desc = <<>>
    /\ potential_bugs = NoCandidates
    /\ module_header = <<>>
    /\ to_return = <<>>
    /\ isGood = FALSE
    /\ error = <<>>
    /\ request = NoPrompt
    /\ tmpdirs = {}
    /\ returned = <<>>
    /\ fault = "none"
    /\ trace = <<>>
    /\ synthPrompt = NoPrompt
    /\ emptyHeaderText = FALSE
    /\ lastCheck = NoCheck
    /\ response = <<>>
    /\ probe \in [verilog_code : ArtifactTexts,
                  mutant0 : {file_name_to_content.mutant},
                  known : {FALSE},
                  proc : {NoProcess}]
    /\ verdicts = <<>>

\* line 129, from any caller: check_verilog_syntax(code, mutant0, "tb")
ValidatorCall ==
    /\ pc \in {"Idle", "Passed", "Repairing", "Fault"}
    /\ NumCalls("check_verilog_syntax") < MaxValidations
    /\ \E code \in ArtifactTexts :
          EnterCheck([verilog_code |-> code,
                      mutant0 |-> file_name_to_content.mutant,
                      top_module |-> "tb"])
    /\ isGood' = FALSE
    /\ error' = <<>>
    /\ fault' = "none"
    /\ UNCHANGED <<file_name_to_content, functional_desc, potential_bugs, module_header,
                   to_return, request, returned, synthPrompt, emptyHeaderText, response,
                   probe, verdicts>>

\* the directory the compiler is run on holds the probe pair
CompilesProbe ==
    \E d \in tmpdirs : d.temp_tb = probe.verilog_code /\ d.mutant0 = probe.mutant0

\* lines 79-92: the compiler has run (on the probe pair: as it did before) and
\* check_verilog_syntax returns or raises; a result for the probe pair is noted
ValidatorReturn ==
    /\ pc = "Validating"
    /\ \E out \in CompilerOutcomes :
          /\ (CompilesProbe /\ probe.known) => out = probe.proc
          /\ ExitCheck(out)
          /\ probe' = IF CompilesProbe
                      THEN [probe EXCEPT !.known = TRUE, !.proc = out]
                      ELSE probe
    /\ verdicts' = IF /\ lastCheck.verilog_code = probe.verilog_code
                      /\ lastCheck.mutant0 = probe.mutant0
                   THEN Append(verdicts, lastCheck'.outcome)
                   ELSE verdicts
    /\ UNCHANGED <<file_name_to_content, functional_desc, potential_bugs, module_header,
                   to_return, request, returned, trace, synthPrompt, emptyHeaderText,
                   response>>

NextValidator ==
    \/ ValidatorCall
    \/ ValidatorReturn

SpecValidator == InitValidator /\ [][NextValidator]_vars

\* C12: against a compiler that is deterministic on a pair (artifact,
\* candidate module), every validation of that pair gives the same result
\* (Pass, Fail or the same fault), whatever was validated before it; and no
\* directory is left by a finished call.
C12_ValidatorIdempotent ==
    /\ \A i, j \in DOMAIN verdicts : verdicts[i] = verdicts[j]
    /\ \A i \in DOMAIN verdicts :
          /\ probe.known
          /\ verdicts[i] = "pass" <=> (probe.proc.launched /\ probe.proc.returncode = 0)
          /\ ~probe.proc.launched => verdicts[i] = "raise"
    /\ pc # "Validating" => tmpdirs = {}

\* the pair was validated twice, with a validation of another artifact that
\* gave another result in between
C12_Witness ==
    /\ Len(verdicts) = 2
    /\ NumCalls("check_verilog_syntax") = 3
    /\ lastCheck.verilog_code # probe.verilog_code
    /\ lastCheck.outcome \in {"pass", "fail"}
    /\ lastCheck.outcome # verdicts[1]

\* ------------------------------------------ the envelope heuristic on its own
\* longest raw response the four oracle functions are applied to
MaxEnvLen == 6
\* code points of these responses: two letters, the newline and the carriage
\* return
EnvelopeChars == {97, 98, LF, CR}
EnvelopeResponses ==
    {Response(t) : t \in SeqsUpTo(EnvelopeChars, MaxEnvLen)} \cup {NoCandidates}

\* a response has arrived and no oracle function has been applied to it yet
InitEnvelope ==
    /\ pc = "Idle"
    /\ file_name_to_content \in ValidatorInputs
    /\ functional_desc = <<>>
    /\ potential_bugs = NoCandidates
    /\ module_header = <<>>
    /\ to_return = <<>>
    /\ isGood = FALSE
    /\ error = <<>>
    /\ request = NoPrompt
    /\ tmpdirs = {}
    /\ returned = <<>>
    /\ fault = "none"
    /\ trace = <<>>
    /\ synthPrompt = NoPrompt
    /\ emptyHeaderText = FALSE
    /\ lastCheck = NoCheck
    /\ response \in {<<r>> : r \in EnvelopeResponses}
    /\ probe = NoProbe
    /\ verdicts = <<>>

\* lines 34-35: finding_bugs returns on this response
ApplyFindingBugs ==
    /\ pc = "Idle"
    /\ FindingBugsReceives(response[1])
    /\ UNCHANGED <<file_name_to_content, functional_desc, module_header, to_return,
                   isGood, error, request, tmpdirs, returned, trace, synthPrompt,
                   emptyHeaderText, lastCheck, probe, verdicts>>

\* lines 21-24: extract_header returns on this response
ApplyExtractHeader ==
    /\ pc = "Idle"
    /\ ExtractHeaderReceives(response[1])
    /\ UNCHANGED <<file_name_to_content, functional_desc, potential_bugs, to_return,
                   isGood, error, request, tmpdirs, returned, trace, synthPrompt,
                   lastCheck, probe, verdicts>>

\* lines 58-60: creating_tb returns on this response
ApplyCreatingTb ==
    /\ pc = "Idle"
    /\ CreatingTbReceives(response[1])
    /\ UNCHANGED <<file_name_to_content, functional_desc, potential_bugs, module_header,
                   error, request, tmpdirs, returned, trace, synthPrompt,
                   emptyHeaderText, lastCheck, probe, verdicts>>

\* lines 108-112: fix_verilog_syntax returns on this response
ApplyFixVerilogSyntax ==
    /\ pc = "Idle"
    /\ FixVerilogSyntaxReceives(response[1])
    /\ UNCHANGED <<file_name_to_content, functional_desc, potential_bugs, module_header,
                   isGood, error, request, tmpdirs, returned, trace, synthPrompt,
                   emptyHeaderText, lastCheck, probe, verdicts>>

NextEnvelope ==
    \/ ApplyFindingBugs
    \/ ApplyExtractHeader
    \/ ApplyCreatingTb
    \/ ApplyFixVerilogSyntax

SpecEnvelope == InitEnvelope /\ [][NextEnvelope]_vars

\* the pieces of a text between its newlines (empty pieces kept)
RECURSIVE SplitAtLF(_)
SplitAtLF(t) ==
    IF \E i \in DOMAIN t : t[i] = LF
    THEN LET i == CHOOSE k \in DOMAIN t : t[k] = LF /\ \A j \in 1..(k - 1) : t[j] # LF
         IN  <<SubSeq(t, 1, i - 1)>> \o SplitAtLF(SubSeq(t, i + 1, Len(t)))
    ELSE <<t>>

\* the text of the response an oracle function has received
RawText == response[1].candidates[1].text

\* t is the raw response without its first and its last line: empty when the
\* response has at most two lines, else its lines 2..n-1, unchanged and in
\* order, one newline between two of them
IsMiddleOfRaw(t) ==
    LET lines == SplitLines(RawText) IN
    IF Len(lines) <= 2
    THEN t = <<>>
    ELSE SplitAtLF(t) = SubSeq(lines, 2, Len(lines) - 1)

\* C13: what extract_header, creating_tb and fix_verilog_syntax return on a
\* response is the response without its first and its last line (lines as
\* str.splitlines() cuts them): the lines 2..n-1 unchanged and in order when
\* there are n >= 3 lines, the empty text when there are 0, 1 or 2; what
\* finding_bugs returns is the response itself, its text untouched; and only a
\* response without a candidate makes one of the three fail (IndexError).
C13_EnvelopeDropsFirstAndLast ==
    /\ pc = "HeaderExtracted" => IsMiddleOfRaw(module_header)
    /\ pc \in {"Synthesized", "Repaired"} => IsMiddleOfRaw(to_return)
    /\ pc = "BugsHypothesized" =>
          /\ potential_bugs = response[1]
          /\ potential_bugs.candidates # <<>> => BugsText = RawText
    /\ pc = "Fault" <=> (fault = "IndexError" /\ response[1] = NoCandidates)
    /\ response[1] = NoCandidates => pc \in {"Idle", "BugsHypothesized", "Fault"}

\* creating_tb on a response of four lines, cut at a carriage return and at
\* newlines: the two middle lines come back in order
C13_Witness ==
    /\ pc = "Synthesized"
    /\ Len(SplitLines(RawText)) = 4
    /\ \E i \in DOMAIN RawText : RawText[i] = CR
    /\ to_return = <<97, LF, 98>>

\* ------------------------------------------------- claims on the repair loop
\* artifacts produced so far in a Run that has reached the loop: the one of
\* creating_tb and one for every fix_verilog_syntax call that has returned
RepairsCompleted == NumCalls("fix_verilog_syntax") - (IF pc = "Fixing" THEN 1 ELSE 0)
ArtifactsProduced == NumCalls("creating_tb") + RepairsCompleted
OracleRequests == Cardinality({i \in DOMAIN trace : trace[i] \in OracleFns})

\* C14: a repair replaces the artifact entirely: when fix_verilog_syntax (or
\* creating_tb) has returned, to_return is exactly the envelope-stripped text
\* of the response just received, nothing of the earlier artifact is kept;
\* the repair prompt carries the live artifact, which is the one whose
\* validation just failed; every validation is a validation of the live
\* artifact and what is returned is the live artifact; and no artifact is
\* validated or repaired twice (there are never more validations than
\* artifacts produced, nor more repairs than validations).
C14_RepairReplacesArtifact ==
    /\ pc \in {"Synthesized", "Repaired"} =>
          /\ response # <<>>
          /\ response[1].candidates # <<>>
          /\ to_return = StripEnvelope(RawText)
    /\ request.fn = "fix_verilog_syntax" =>
          /\ request.verilog_code = to_return
          /\ lastCheck.verilog_code = to_return
          /\ lastCheck.outcome = "fail"
    /\ pc \in {"Validating", "Passed", "Repairing"} => lastCheck.verilog_code = to_return
    /\ pc = "Done" => returned = to_return /\ lastCheck.verilog_code = returned
    /\ pc \in InLoop =>
          /\ NumCalls("check_verilog_syntax") <= ArtifactsProduced
          /\ NumCalls("fix_verilog_syntax") <= NumCalls("check_verilog_syntax")

\* the second repair has returned an artifact that differs from the non-empty
\* one it was asked to repair
C14_Witness ==
    /\ pc = "Repaired"
    /\ NumCalls("fix_verilog_syntax") = 2
    /\ lastCheck.verilog_code # <<>>
    /\ to_return # <<>>
    /\ to_return # lastCheck.verilog_code

\* C15: no step changes file_name_to_content, and functional_desc keeps the
\* value read from it: every validation (the call's arguments and the file
\* mutant0.v in the temporary directory) uses the Run's candidate module, the
\* text the header request carried, with top module tb, and the synthesis
\* prompt carries the Run's specification.
C15_InputsUnchanged ==
    /\ [][/\ file_name_to_content' = file_name_to_content
          /\ pc # "Init" => functional_desc' = functional_desc]_vars
    /\ [](/\ pc # "Init" => functional_desc = file_name_to_content.spec
          /\ lastCheck.outcome # "none" =>
                /\ lastCheck.mutant0 = file_name_to_content.mutant
                /\ lastCheck.top_module = "tb"
          /\ \A d \in tmpdirs : /\ d.mutant0 = file_name_to_content.mutant
                                /\ d.temp_tb = to_return
          /\ request.fn = "extract_header" =>
                request.mutant0 = file_name_to_content.mutant
          /\ request.fn = "finding_bugs" =>
                request.functional_desc = file_name_to_content.spec
          /\ pc \in InLoop =>
                synthPrompt.functional_desc = file_name_to_content.spec)

\* the third validation of a Run is compiling, against a candidate module of
\* more than one line
C15_Witness ==
    /\ pc = "Validating"
    /\ NumCalls("check_verilog_syntax") = 3
    /\ \E d \in tmpdirs : d.mutant0 = <<109, LF, 109>>
    /\ module_header # file_name_to_content.mutant

\* C16 as stated: at every point of the loop the number of validations
\* started is the number of repairs completed plus one.
C16_ValidationsAlwaysRepairsPlusOne ==
    pc \in {"Validating", "Passed", "Repairing", "Fixing", "Repaired"} =>
        NumCalls("check_verilog_syntax") = RepairsCompleted + 1

\* C16: creating_tb is requested at most once, exactly once in a Run that has
\* reached the loop, and never after a validation; from the start of a
\* validation until the repair that follows it has returned, and at Done, the
\* number of validations started is the number of repairs completed plus one;
\* at the loop test that follows creating_tb or a repair (the new artifact is
\* not validated yet) the two numbers are equal; at Done the Run has made
\* exactly 3 + (number of repairs) oracle requests.
C16_ValidationsAndRepairs ==
    /\ NumCalls("creating_tb") <= 1
    /\ pc \in InLoop => NumCalls("creating_tb") = 1
    /\ request.fn = "creating_tb" => NumCalls("check_verilog_syntax") = 0
    /\ pc \in {"Validating", "Passed", "Repairing", "Fixing", "Done"} =>
          NumCalls("check_verilog_syntax") = RepairsCompleted + 1
    /\ pc \in {"Synthesized", "Repaired"} =>
          NumCalls("check_verilog_syntax") = RepairsCompleted
    /\ pc = "Done" =>
          /\ NumCalls("check_verilog_syntax") = NumCalls("fix_verilog_syntax") + 1
          /\ OracleRequests = 3 + NumCalls("fix_verilog_syntax")

\* a Run that returned after two repairs: three validations, five requests
C16_Witness ==
    /\ pc = "Done"
    /\ NumCalls("fix_verilog_syntax") = 2
    /\ NumCalls("check_verilog_syntax") = 3
    /\ OracleRequests = 5

====
